---- MODULE Spec2Model ----
(***************************************************************************)
(* Requisition records, filters, filter matching (meets_filter) and the    *)
(* YAML filter loaders (parse_all_from_yaml) of requisitions.py.           *)
(*                                                                         *)
(* Numbers (int and float fields alike) are modelled as integers.  Python  *)
(* objects whose attributes can hold values of several types (the filter   *)
(* criteria, the values of a YAML mapping) are modelled as tagged values.  *)
(***************************************************************************)
EXTENDS Integers, Sequences, FiniteSets, TLC

VARIABLES
    record,     \* the Requisition / DetailedRequisition built or matched
    flt,        \* the Filter / DetailedFilter built or passed to meets_filter
    result,     \* "none" before the call; "True" / "False" returned; "TypeError" raised
    data,       \* what safe_load returned for the YAML file (parse_all_from_yaml)
    cls,        \* the class parse_all_from_yaml was called on ("none" before the call)
    filters,    \* the list parse_all_from_yaml returned
    raised,     \* "none", or the exception raised by the loader or by enum parsing
    records,    \* the collection of requisitions matched against the filter list
    selected,   \* the requisitions of the collection that met a filter of the list
    base_req,   \* the Requisition passed to DetailedRequisition(...)
    base_flt,   \* the Filter passed to DetailedFilter(...)
    collected,  \* the collected strings of the enum valued detail fields
    details,    \* the other arguments of DetailedRequisition(...)
    criteria    \* the other keyword arguments of DetailedFilter(...)

vars ==
    <<record, flt, result, data, cls, filters, raised, records, selected,
      base_req, base_flt, collected, details, criteria>>

setVars == <<records, selected>>
buildVars == <<base_req, base_flt, collected, details, criteria>>

(***************************************************************************)
(* Bounds of the model.                                                    *)
(***************************************************************************)
MaxVal == 2       \* numeric record fields range over 1..MaxVal
MaxList == 2      \* whitelists and blacklists hold at most MaxList items
MaxEntries == 2   \* a YAML document lists at most MaxEntries filter entries

FieldValues == 1..MaxVal
BoundValues == 0..(MaxVal + 1)

(***************************************************************************)
(* Python values.                                                          *)
(***************************************************************************)
PyNone == [t |-> "NoneType", n |-> 0, s |-> "", l |-> <<>>]
PyInt(i) == [t |-> "int", n |-> i, s |-> "", l |-> <<>>]
PyBool(b) == [t |-> "bool", n |-> IF b THEN 1 ELSE 0, s |-> "", l |-> <<>>]
PyStr(x) == [t |-> "str", n |-> 0, s |-> x, l |-> <<>>]
PyList(xs) == [t |-> "list", n |-> 0, s |-> "", l |-> xs]

SeqsUpTo(S, k) == UNION {[1..m -> S] : m \in 0..k}
Items(list) == {list[i] : i \in DOMAIN list}

(***************************************************************************)
(* Enumerations.  A member is written by its qualified name; an Enum class *)
(* called on a raw value returns the member with that value or raises      *)
(* ValueError.  Grade and Education are IntEnum: a member is its integer.  *)
(***************************************************************************)
GradeCodes ==
    <<"A1", "A2", "A3", "A4", "A5", "A6", "A7",
      "B1", "B2", "B3", "B4", "B5", "B6", "B7",
      "C1", "C2", "C3", "C4", "C5", "C6", "C7">>

\* Mutant: the members are numbered from 1 (auto() without `A1 = 0`).
Grade_numbered_from_one(code) == CHOOSE i \in DOMAIN GradeCodes : GradeCodes[i] = code

Grade(code) == (CHOOSE i \in DOMAIN GradeCodes : GradeCodes[i] = code) - 1

DestinationMembers ==
    { <<"Destination.FAMILY", "Familiar">>,
      <<"Destination.PAY_DEBTS", "Pagar Deudas">>,
      <<"Destination.CAR", "Automóvil">>,
      <<"Destination.BUSINESS", "Negocio">>,
      <<"Destination.EDUCATION", "Educación">>,
      <<"Destination.HOUSING", "Vivienda">>,
      <<"Destination.PERSONAL_EXPENSES", "Gastos Personales">> }

\* Mutant: the UNKNOWN member of Housing carries a label of its own.
HousingMembers_unknown_labelled ==
    { <<"Housing.UNKNOWN", "Desconocido">>,
      <<"Housing.RENTED", "Rentada">>,
      <<"Housing.LIVES_WITH_FAMILY", "Vivo con familia">>,
      <<"Housing.OWNER", "Propietario">> }

HousingMembers ==
    { <<"Housing.UNKNOWN", "">>,
      <<"Housing.RENTED", "Rentada">>,
      <<"Housing.LIVES_WITH_FAMILY", "Vivo con familia">>,
      <<"Housing.OWNER", "Propietario">> }

OccupationTypeMembers ==
    { <<"OccupationType.UNKNOWN", "">>,
      <<"OccupationType.EMPLOYEE", "Empleado">>,
      <<"OccupationType.FREELANCER", "Trabajo por mi cuenta">>,
      <<"OccupationType.BUSINESS_OWNER", "Tengo un negocio">> }

EducationMembers ==
    { <<"UNKNOWN", 0>>, <<"TECHNICIAN", 1>>, <<"PROFESIONAL", 2>>,
      <<"MASTERS", 3>>, <<"PHD", 4>> }

\* Mutant: a raw value that is no member's value is kept instead of raising.
EnumCall_keeping_unknown(members, value) ==
    IF \E m \in members : m[2] = value
    THEN (CHOOSE m \in members : m[2] = value)[1]
    ELSE value

\* Enum.__call__(value): lookup by value.
EnumCall(members, value) ==
    IF \E m \in members : m[2] = value
    THEN (CHOOSE m \in members : m[2] = value)[1]
    ELSE "ValueError"

Destination(value) == EnumCall(DestinationMembers, value)
Housing(value) == EnumCall(HousingMembers, value)
OccupationType(value) == EnumCall(OccupationTypeMembers, value)

Names(members) == {m[1] : m \in members}

(***************************************************************************)
(* Requisition and DetailedRequisition.                                    *)
(***************************************************************************)
RequisitionFields ==
    {"id", "url", "grade", "interest_rate", "score", "destination", "term",
     "amount", "remaining_funding_amount", "loan_number"}

DetailFields ==
    {"monthly_payment", "credit_history_length", "credit_history_inquiries",
     "opened_accounts", "total_income", "total_expenses", "age", "dependents",
     "has_major_medical_insurance", "has_own_vehicle", "education",
     "state_of_residence", "housing", "occupation", "tenure", "occupation_type"}

Requisition_init(a) ==
    [class |-> "Requisition",
     id |-> a.id, url |-> a.url, grade |-> a.grade,
     interest_rate |-> a.interest_rate, score |-> a.score,
     destination |-> a.destination, term |-> a.term, amount |-> a.amount,
     remaining_funding_amount |-> a.remaining_funding_amount,
     loan_number |-> a.loan_number]

\* Mutant: amount is taken from remaining_funding_amount.
DetailedRequisition_init_amount_from_remaining(base_requisition, a) ==
    [[k \in DetailFields |-> a[k]] @@
     [k \in RequisitionFields |->
        IF k = "amount" THEN base_requisition.remaining_funding_amount
        ELSE base_requisition[k]] @@
     [class |-> "DetailedRequisition"]
     EXCEPT !.class = "DetailedRequisition"]

\* super().__init__(**base_requisition.__dict__), then the detailed attributes.
DetailedRequisition_init(base_requisition, a) ==
    [class |-> "DetailedRequisition",
     id |-> base_requisition.id, url |-> base_requisition.url,
     grade |-> base_requisition.grade,
     interest_rate |-> base_requisition.interest_rate,
     score |-> base_requisition.score,
     destination |-> base_requisition.destination,
     term |-> base_requisition.term, amount |-> base_requisition.amount,
     remaining_funding_amount |-> base_requisition.remaining_funding_amount,
     loan_number |-> base_requisition.loan_number,
     monthly_payment |-> a.monthly_payment,
     credit_history_length |-> a.credit_history_length,
     credit_history_inquiries |-> a.credit_history_inquiries,
     opened_accounts |-> a.opened_accounts,
     total_income |-> a.total_income,
     total_expenses |-> a.total_expenses,
     age |-> a.age, dependents |-> a.dependents,
     has_major_medical_insurance |-> a.has_major_medical_insurance,
     has_own_vehicle |-> a.has_own_vehicle,
     education |-> a.education,
     state_of_residence |-> a.state_of_residence,
     housing |-> a.housing, occupation |-> a.occupation,
     tenure |-> a.tenure, occupation_type |-> a.occupation_type]

(***************************************************************************)
(* Filter and DetailedFilter.  A constructor takes its keyword arguments   *)
(* as a function from parameter names to values; every omitted parameter   *)
(* defaults to None.                                                       *)
(***************************************************************************)
FilterParameters ==
    {"minimum_risk_grade", "maximum_risk_grade", "minimum_score",
     "maximum_score", "minimum_interest_rate", "maximum_interest_rate",
     "destination_whitelist", "destination_blacklist", "minimum_term",
     "maximum_term", "minimum_amount", "maximum_amount",
     "minimum_remaining_funding_amount", "maximum_remaining_funding_amount",
     "minimum_loan_number", "maximum_loan_number"}

DetailedFilterCriteria ==
    {"minimum_monthly_payment", "maximum_monthly_payment",
     "minimum_credit_history_length", "maximum_credit_history_length",
     "minimum_credit_history_inquiries", "maximum_credit_history_inquiries",
     "minimum_opened_accounts", "maximum_opened_accounts",
     "minimum_total_income", "maximum_total_income",
     "minimum_total_expenses", "maximum_total_expenses",
     "minimum_age", "maximum_age", "minimum_dependents", "maximum_dependents",
     "has_major_medical_insurance", "has_own_vehicle",
     "housing_whitelist", "housing_blacklist",
     "minimum_tenure", "maximum_tenure",
     "occupation_type_whitelist", "occupation_type_blacklist"}

\* inspect.signature(DetailedFilter.__init__).parameters, "self" aside.
DetailedFilterParameters == {"base_filter"} \cup DetailedFilterCriteria

Filter_init(kwargs) ==
    [k \in {"class"} \cup FilterParameters |->
        IF k = "class" THEN PyStr("Filter")
        ELSE IF k \in DOMAIN kwargs THEN kwargs[k] ELSE PyNone]

\* Mutant: super().__init__() is called without the base filter's criteria.
DetailedFilter_init_without_base_criteria(base_filter, kwargs) ==
    [k \in {"class"} \cup FilterParameters \cup DetailedFilterCriteria |->
        IF k = "class" THEN PyStr("DetailedFilter")
        ELSE IF k \in DOMAIN kwargs THEN kwargs[k] ELSE PyNone]

\* super().__init__(**base_filter.__dict__), then the detailed attributes.
DetailedFilter_init(base_filter, kwargs) ==
    [k \in {"class"} \cup FilterParameters \cup DetailedFilterCriteria |->
        IF k = "class" THEN PyStr("DetailedFilter")
        ELSE IF k \in FilterParameters THEN base_filter[k]
        ELSE IF k \in DOMAIN kwargs THEN kwargs[k] ELSE PyNone]

isinstance(obj, class) ==
    \/ obj.class.s = class
    \/ class = "Filter" /\ obj.class.s = "DetailedFilter"

(***************************************************************************)
(* meets_filter.  Each `if ...: return False` of the source is one check:  *)
(* "pass" when control falls through to the next statement, "False" when   *)
(* it returns False, "TypeError" when evaluating its condition raises.     *)
(* The method's outcome is that of the first check that does not pass, and *)
(* "True" (the final `return True`) when all pass.                         *)
(***************************************************************************)
IsNumber(v) == v.t \in {"int", "bool"}

\* Mutant: the `is not None` test is missing (None > number raises TypeError).
MinimumCheck_without_none_test(minimum, value) ==
    IF ~IsNumber(minimum) THEN "TypeError"
    ELSE IF minimum.n > value THEN "False" ELSE "pass"

\* Mutant: the minimum bound is exclusive (>= instead of >).
MinimumCheck_exclusive(minimum, value) ==
    IF minimum.t = "NoneType" THEN "pass"
    ELSE IF ~IsNumber(minimum) THEN "TypeError"
    ELSE IF minimum.n >= value THEN "False" ELSE "pass"

\* if filter.minimum_x is not None and filter.minimum_x > self.x: return False
MinimumCheck(minimum, value) ==
    IF minimum.t = "NoneType" THEN "pass"
    ELSE IF ~IsNumber(minimum) THEN "TypeError"
    ELSE IF minimum.n > value THEN "False" ELSE "pass"

\* if filter.maximum_x is not None and filter.maximum_x < self.x: return False
MaximumCheck(maximum, value) ==
    IF maximum.t = "NoneType" THEN "pass"
    ELSE IF ~IsNumber(maximum) THEN "TypeError"
    ELSE IF maximum.n < value THEN "False" ELSE "pass"

\* if filter.has_x is not None and filter.has_x != self.has_x: return False
FlagCheck(flag, value) ==
    IF flag.t = "NoneType" THEN "pass"
    ELSE IF ~IsNumber(flag) THEN "False"
    ELSE IF (flag.n = 1) # value THEN "False" ELSE "pass"

\* for item in list: if item == value: found = True; break
RECURSIVE Found(_, _)
Found(list, value) ==
    IF list = <<>> THEN FALSE
    ELSE IF Head(list) = value THEN TRUE
    ELSE Found(Tail(list), value)

\* Mutant: the whitelist is tested for truth (`if filter.x_whitelist:`), so
\* an empty list is skipped like None.
WhitelistCheck_skipping_empty(whitelist, value) ==
    IF whitelist.t = "NoneType" \/ whitelist = PyList(<<>>) THEN "pass"
    ELSE IF IsNumber(whitelist) THEN "TypeError"
    ELSE IF Found(whitelist.l, value) THEN "pass" ELSE "False"

\* if filter.x_whitelist is not None: ... if not isWhitelisted: return False
\* (iterating a str visits its characters, none of which equals a member)
WhitelistCheck(whitelist, value) ==
    IF whitelist.t = "NoneType" THEN "pass"
    ELSE IF IsNumber(whitelist) THEN "TypeError"
    ELSE IF Found(whitelist.l, value) THEN "pass" ELSE "False"

\* Mutant: the `if isBlacklisted: return False` after the loop is missing.
BlacklistCheck_without_return(blacklist, value) ==
    IF blacklist.t = "NoneType" THEN "pass"
    ELSE IF IsNumber(blacklist) THEN "TypeError"
    ELSE "pass"

\* if filter.x_blacklist is not None: ... if isBlacklisted: return False
BlacklistCheck(blacklist, value) ==
    IF blacklist.t = "NoneType" THEN "pass"
    ELSE IF IsNumber(blacklist) THEN "TypeError"
    ELSE IF Found(blacklist.l, value) THEN "False" ELSE "pass"

FirstReturn(checks) ==
    IF \A i \in DOMAIN checks : checks[i] = "pass" THEN "True"
    ELSE checks[CHOOSE i \in DOMAIN checks :
                    /\ checks[i] # "pass"
                    /\ \A j \in 1..(i - 1) : checks[j] = "pass"]

\* The statements of Requisition.meets_filter.
BaseCriteria(self, filter) ==
    FirstReturn(<<
        MinimumCheck(filter.minimum_risk_grade, self.grade),
        MaximumCheck(filter.maximum_risk_grade, self.grade),
        MinimumCheck(filter.minimum_score, self.score),
        MaximumCheck(filter.maximum_score, self.score),
        MinimumCheck(filter.minimum_interest_rate, self.interest_rate),
        MaximumCheck(filter.maximum_interest_rate, self.interest_rate),
        WhitelistCheck(filter.destination_whitelist, self.destination),
        BlacklistCheck(filter.destination_blacklist, self.destination),
        MinimumCheck(filter.minimum_term, self.term),
        MaximumCheck(filter.maximum_term, self.term),
        MinimumCheck(filter.minimum_amount, self.amount),
        MaximumCheck(filter.maximum_amount, self.amount),
        MinimumCheck(filter.minimum_remaining_funding_amount,
                     self.remaining_funding_amount),
        MaximumCheck(filter.maximum_remaining_funding_amount,
                     self.remaining_funding_amount),
        MinimumCheck(filter.minimum_loan_number, self.loan_number),
        MaximumCheck(filter.maximum_loan_number, self.loan_number) >>)

\* Mutant: a DetailedFilter argument is rejected instead of being applied.
Requisition_meets_filter_rejecting_detailed(self, filter) ==
    IF isinstance(filter, "DetailedFilter") THEN "TypeError"
    ELSE BaseCriteria(self, filter)

Requisition_meets_filter(self, filter) == BaseCriteria(self, filter)

\* The statements after `if not super().meets_filter(filter): return False`.
DetailedCriteria(self, filter) ==
    FirstReturn(<<
        MinimumCheck(filter.minimum_monthly_payment, self.monthly_payment),
        MaximumCheck(filter.maximum_monthly_payment, self.monthly_payment),
        MinimumCheck(filter.minimum_credit_history_length,
                     self.credit_history_length),
        MaximumCheck(filter.maximum_credit_history_length,
                     self.credit_history_length),
        MinimumCheck(filter.minimum_credit_history_inquiries,
                     self.credit_history_inquiries),
        MaximumCheck(filter.maximum_credit_history_inquiries,
                     self.credit_history_inquiries),
        MinimumCheck(filter.minimum_opened_accounts, self.opened_accounts),
        MaximumCheck(filter.maximum_opened_accounts, self.opened_accounts),
        MinimumCheck(filter.minimum_total_income, self.total_income),
        MaximumCheck(filter.maximum_total_income, self.total_income),
        MinimumCheck(filter.minimum_total_expenses, self.total_expenses),
        MaximumCheck(filter.maximum_total_expenses, self.total_expenses),
        MinimumCheck(filter.minimum_age, self.age),
        MaximumCheck(filter.maximum_age, self.age),
        MinimumCheck(filter.minimum_dependents, self.dependents),
        MaximumCheck(filter.maximum_dependents, self.dependents),
        FlagCheck(filter.has_major_medical_insurance,
                  self.has_major_medical_insurance),
        FlagCheck(filter.has_own_vehicle, self.has_own_vehicle),
        WhitelistCheck(filter.housing_whitelist, self.housing),
        BlacklistCheck(filter.housing_blacklist, self.housing),
        MinimumCheck(filter.minimum_tenure, self.tenure),
        MaximumCheck(filter.maximum_tenure, self.tenure),
        WhitelistCheck(filter.occupation_type_whitelist, self.occupation_type),
        BlacklistCheck(filter.occupation_type_blacklist, self.occupation_type) >>)

\* Mutant: the override is missing, the inherited method runs.
DetailedRequisition_meets_filter_not_overridden(self, filter) ==
    Requisition_meets_filter(self, filter)

\* Mutant: the term criteria are tested against tenure.
DetailedRequisition_meets_filter_term_as_tenure(self, filter) ==
    LET base == Requisition_meets_filter([self EXCEPT !.term = self.tenure], filter) IN
    IF ~isinstance(filter, "DetailedFilter") THEN base
    ELSE IF base # "True" THEN base
    ELSE DetailedCriteria(self, filter)

DetailedRequisition_meets_filter(self, filter) ==
    IF ~isinstance(filter, "DetailedFilter")
    THEN Requisition_meets_filter(self, filter)
    ELSE LET base == Requisition_meets_filter(self, filter) IN
         IF base # "True" THEN base
         ELSE DetailedCriteria(self, filter)

\* Dynamic dispatch of record.meets_filter(filter) on the record's class.
meets_filter(self, filter) ==
    IF self.class = "DetailedRequisition"
    THEN DetailedRequisition_meets_filter(self, filter)
    ELSE Requisition_meets_filter(self, filter)

(***************************************************************************)
(* Which record field each criterion of meets_filter is tested against.    *)
(***************************************************************************)
BaseRanges ==
    { <<"minimum_risk_grade", "maximum_risk_grade", "grade">>,
      <<"minimum_score", "maximum_score", "score">>,
      <<"minimum_interest_rate", "maximum_interest_rate", "interest_rate">>,
      <<"minimum_term", "maximum_term", "term">>,
      <<"minimum_amount", "maximum_amount", "amount">>,
      <<"minimum_remaining_funding_amount", "maximum_remaining_funding_amount",
        "remaining_funding_amount">>,
      <<"minimum_loan_number", "maximum_loan_number", "loan_number">> }

BaseLists ==
    { <<"destination_whitelist", "destination_blacklist", "destination">> }

DetailedRanges ==
    { <<"minimum_monthly_payment", "maximum_monthly_payment", "monthly_payment">>,
      <<"minimum_credit_history_length", "maximum_credit_history_length",
        "credit_history_length">>,
      <<"minimum_credit_history_inquiries", "maximum_credit_history_inquiries",
        "credit_history_inquiries">>,
      <<"minimum_opened_accounts", "maximum_opened_accounts", "opened_accounts">>,
      <<"minimum_total_income", "maximum_total_income", "total_income">>,
      <<"minimum_total_expenses", "maximum_total_expenses", "total_expenses">>,
      <<"minimum_age", "maximum_age", "age">>,
      <<"minimum_dependents", "maximum_dependents", "dependents">>,
      <<"minimum_tenure", "maximum_tenure", "tenure">> }

DetailedFlags == {"has_major_medical_insurance", "has_own_vehicle"}

DetailedLists ==
    { <<"housing_whitelist", "housing_blacklist", "housing">>,
      <<"occupation_type_whitelist", "occupation_type_blacklist",
        "occupation_type">> }

(***************************************************************************)
(* Inputs of the matching specification: records that differ from a        *)
(* baseline record in at most one field, and filters that set the criteria *)
(* of one field (both bounds of a range, both lists of a category, a flag) *)
(* or one base criterion together with one detailed criterion.             *)
(***************************************************************************)
BaselineArgs ==
    [id |-> "r1", url |-> "https://example/r1", grade |-> 1,
     interest_rate |-> 1, score |-> 1, destination |-> "Destination.CAR",
     term |-> 1, amount |-> 1, remaining_funding_amount |-> 1,
     loan_number |-> 1]

BaselineDetails ==
    [monthly_payment |-> 1, credit_history_length |-> 1,
     credit_history_inquiries |-> 1, opened_accounts |-> 1,
     total_income |-> 1, total_expenses |-> 1, age |-> 1, dependents |-> 1,
     has_major_medical_insurance |-> FALSE, has_own_vehicle |-> FALSE,
     education |-> 2, state_of_residence |-> "Jalisco",
     housing |-> "Housing.RENTED", occupation |-> "", tenure |-> 1,
     occupation_type |-> "OccupationType.EMPLOYEE"]

ArgsInputs ==
    {BaselineArgs}
    \cup {[BaselineArgs EXCEPT ![t[3]] = v] : t \in BaseRanges, v \in FieldValues}
    \cup {[BaselineArgs EXCEPT !.destination = d] : d \in Names(DestinationMembers)}

DetailsInputs ==
    {BaselineDetails}
    \cup {[BaselineDetails EXCEPT ![t[3]] = v] :
            t \in DetailedRanges, v \in FieldValues}
    \cup {[BaselineDetails EXCEPT ![f] = TRUE] : f \in DetailedFlags}
    \cup {[BaselineDetails EXCEPT !.housing = h] : h \in Names(HousingMembers)}
    \cup {[BaselineDetails EXCEPT !.occupation_type = o] :
            o \in Names(OccupationTypeMembers)}
    \cup {[BaselineDetails EXCEPT !.education = 0],
          [BaselineDetails EXCEPT !.occupation = "Chofer"],
          [BaselineDetails EXCEPT !.state_of_residence = "Colima"]}

BaselineRequisition == Requisition_init(BaselineArgs)
BaselineDetailed == DetailedRequisition_init(BaselineRequisition, BaselineDetails)

SameBase(a, b) == \A k \in RequisitionFields : a[k] = b[k]

DetailedInputs ==
    {DetailedRequisition_init(Requisition_init(a), BaselineDetails) : a \in ArgsInputs}
    \cup {DetailedRequisition_init(BaselineRequisition, d) : d \in DetailsInputs}

RequisitionInputs == {Requisition_init(a) : a \in ArgsInputs} \cup DetailedInputs

Listed(field) ==
    CASE field = "destination" -> {"Destination.CAR", "Destination.BUSINESS"}
      [] field = "housing" -> {"Housing.RENTED", "Housing.OWNER"}
      [] field = "occupation_type" ->
            {"OccupationType.EMPLOYEE", "OccupationType.UNKNOWN"}

NoKwargs == <<>>
OptBounds == {PyNone} \cup {PyInt(b) : b \in BoundValues}
OptLists(field) ==
    {PyNone} \cup {PyList(xs) : xs \in SeqsUpTo(Listed(field), MaxList)}
OptFlags == {PyNone, PyBool(TRUE), PyBool(FALSE)}

RangeGroup(t) == {(t[1] :> lo) @@ (t[2] :> hi) : lo \in OptBounds, hi \in OptBounds}
ListGroup(t) ==
    {(t[1] :> w) @@ (t[2] :> b) : w \in OptLists(t[3]), b \in OptLists(t[3])}
FlagGroup(f) == {(f :> v) : v \in OptFlags}

BaseGroups ==
    UNION {RangeGroup(t) : t \in BaseRanges} \cup UNION {ListGroup(t) : t \in BaseLists}
DetailedGroups ==
    UNION {RangeGroup(t) : t \in DetailedRanges}
    \cup UNION {ListGroup(t) : t \in DetailedLists}
    \cup UNION {FlagGroup(f) : f \in DetailedFlags}

Single(groups) == {g \in groups : \E k \in DOMAIN g : \A j \in DOMAIN g \ {k} : g[j] = PyNone}

FilterInputs == {Filter_init(g) : g \in BaseGroups}

DetailedFilterInputs ==
    {DetailedFilter_init(Filter_init(g), NoKwargs) : g \in BaseGroups}
    \cup {DetailedFilter_init(Filter_init(NoKwargs), g) : g \in DetailedGroups}

MixedFilterInputs ==
    {DetailedFilter_init(Filter_init(b), d) :
        b \in Single(BaseGroups), d \in Single(DetailedGroups)}

NoData == [yaml |-> "none", has_filters |-> FALSE, filters |-> <<>>]

\* The variables of the other specifications, at rest.
NoSelection == [done |-> FALSE, value |-> <<>>]
NoRaw == [housing |-> "", occupation_type |-> "", education |-> ""]
SetIdle == records = <<>> /\ selected = NoSelection
BuildIdle ==
    /\ base_req = BaselineRequisition
    /\ base_flt = Filter_init(NoKwargs)
    /\ collected = NoRaw
    /\ details = BaselineDetails
    /\ criteria = NoKwargs

(***************************************************************************)
(* Matching: meets_filter applied once to the record and filter drawn by   *)
(* Init.                                                                   *)
(***************************************************************************)
Init ==
    /\ \/ \E r \in RequisitionInputs, f \in FilterInputs \cup DetailedFilterInputs :
            record = r /\ flt = f
       \/ \E f \in MixedFilterInputs : record = BaselineDetailed /\ flt = f
    /\ result = "none"
    /\ data = NoData
    /\ cls = "none"
    /\ filters = <<>>
    /\ raised = "none"
    /\ SetIdle /\ BuildIdle

CallRequisitionMeetsFilter ==
    /\ result = "none"
    /\ record.class = "Requisition"
    /\ result' = Requisition_meets_filter(record, flt)
    /\ UNCHANGED <<record, flt, data, cls, filters, raised, setVars, buildVars>>

CallDetailedRequisitionMeetsFilter ==
    /\ result = "none"
    /\ record.class = "DetailedRequisition"
    /\ result' = DetailedRequisition_meets_filter(record, flt)
    /\ UNCHANGED <<record, flt, data, cls, filters, raised, setVars, buildVars>>

Next == CallRequisitionMeetsFilter \/ CallDetailedRequisitionMeetsFilter

Spec == Init /\ [][Next]_vars

(***************************************************************************)
(* parse_all_from_yaml.  `data` is what safe_load returned: yaml is        *)
(* "malformed" when safe_load raises, "null" for an empty document (None), *)
(* "mapping" for a mapping, whose key "filters", when present, holds the   *)
(* list of filter entries.  An entry is a dict: a function from its keys   *)
(* to raw values.  An operation returns the exception it raises ("none"    *)
(* when it returns normally) and its value.                                *)
(***************************************************************************)
Return(v) == [raised |-> "none", value |-> v]
Raise(exception, v) == [raised |-> exception, value |-> v]

\* [Member(value) for value in raw]
ListComprehension(members, raw) ==
    IF IsNumber(raw) THEN Raise("TypeError", raw)
    ELSE IF raw.t = "str" THEN
        (IF raw.s = "" THEN Return(PyList(<<>>)) ELSE Raise("ValueError", raw))
    ELSE LET converted == [i \in DOMAIN raw.l |-> EnumCall(members, raw.l[i])] IN
         IF \E i \in DOMAIN converted : converted[i] = "ValueError"
         THEN Raise("ValueError", raw)
         ELSE Return(PyList(converted))

\* if key in processed_filter and processed_filter[key] is not None:
\*     processed_filter[key] = [Destination(v) for v in processed_filter[key]]
ConvertItem(processed_filter, key, members) ==
    IF key \in DOMAIN processed_filter /\ processed_filter[key].t # "NoneType"
    THEN LET c == ListComprehension(members, processed_filter[key]) IN
         IF c.raised # "none" THEN Raise(c.raised, processed_filter)
         ELSE Return([processed_filter EXCEPT ![key] = c.value])
    ELSE Return(processed_filter)

\* for key, _ in processed_filter.items():
\*     if key not in filter_parameters.keys() or key == "self": processed_filter.pop(key)
\* A dict that changes size while it is iterated raises RuntimeError at the
\* next step of the iteration, also when the key popped was the last one.
PopInvalidKeys(processed_filter, filter_parameters) ==
    IF \E key \in DOMAIN processed_filter : key \notin filter_parameters \/ key = "self"
    THEN Raise("RuntimeError", processed_filter)
    ELSE Return(processed_filter)

\* The body of the loop of Filter.parse_all_from_yaml, for one entry.
Filter_parse_entry(filter) ==
    LET w == ConvertItem(filter, "destination_whitelist", DestinationMembers) IN
    IF w.raised # "none" THEN Raise(w.raised, <<>>)
    ELSE LET b == ConvertItem(w.value, "destination_blacklist", DestinationMembers) IN
    IF b.raised # "none" THEN Raise(b.raised, <<>>)
    ELSE LET p == PopInvalidKeys(b.value, {"self"} \cup FilterParameters) IN
    IF p.raised # "none" THEN Raise(p.raised, <<>>)
    ELSE Return(<<Filter_init(p.value)>>)

\* if key in arguments and arguments.key is not None:
\*     arguments.key = [Member(v) for v in arguments.key]
\* `arguments` is a dict, which has no attribute named after its keys:
\* evaluating arguments.key raises AttributeError.
ConvertAttribute(arguments, key, members) ==
    IF key \in DOMAIN arguments
    THEN Raise("AttributeError", arguments)
    ELSE Return(arguments)

\* cls(base_filter=base_filter, **detailed_filter_arguments)
DetailedFilter_call(base_filter, detailed_filter_arguments) ==
    IF "base_filter" \in DOMAIN detailed_filter_arguments
    THEN Raise("TypeError", <<>>)
    ELSE Return(<<DetailedFilter_init(base_filter, detailed_filter_arguments)>>)

\* The body of the loop of DetailedFilter.parse_all_from_yaml, for one entry.
DetailedFilter_parse_entry(full_filter) ==
    LET base_filter_arguments ==
            [k \in DOMAIN full_filter \cap FilterParameters |-> full_filter[k]]
        detailed_filter_arguments ==
            [k \in DOMAIN full_filter \cap DetailedFilterParameters |-> full_filter[k]]
        w == ConvertAttribute(base_filter_arguments, "destination_whitelist",
                              DestinationMembers)
    IN
    IF w.raised # "none" THEN Raise(w.raised, <<>>)
    ELSE LET b == ConvertAttribute(w.value, "destination_blacklist", DestinationMembers) IN
    IF b.raised # "none" THEN Raise(b.raised, <<>>)
    ELSE LET base_filter == Filter_init(b.value)
             hw == ConvertAttribute(detailed_filter_arguments, "housing_whitelist",
                                    HousingMembers)
    IN
    IF hw.raised # "none" THEN Raise(hw.raised, <<>>)
    ELSE LET hb == ConvertAttribute(hw.value, "housing_blacklist", HousingMembers) IN
    IF hb.raised # "none" THEN Raise(hb.raised, <<>>)
    ELSE LET ow == ConvertAttribute(hb.value, "occupation_type_whitelist",
                                    OccupationTypeMembers) IN
    IF ow.raised # "none" THEN Raise(ow.raised, <<>>)
    ELSE LET ob == ConvertAttribute(ow.value, "occupation_type_blacklist",
                                    OccupationTypeMembers) IN
    IF ob.raised # "none" THEN Raise(ob.raised, <<>>)
    ELSE DetailedFilter_call(base_filter, ob.value)

parse_entry(class, entry) ==
    IF class = "Filter" THEN Filter_parse_entry(entry)
    ELSE DetailedFilter_parse_entry(entry)

\* Mutant: each filter is inserted at the front of the list.
RECURSIVE ParseEntries_prepending(_, _, _)
ParseEntries_prepending(class, entries, list) ==
    IF entries = <<>> THEN Return(list)
    ELSE LET built == parse_entry(class, Head(entries)) IN
         IF built.raised # "none" THEN Raise(built.raised, <<>>)
         ELSE ParseEntries_prepending(class, Tail(entries), built.value \o list)

\* for filter in data["filters"]: ...; filters.append(...)
RECURSIVE ParseEntries(_, _, _)
ParseEntries(class, entries, list) ==
    IF entries = <<>> THEN Return(list)
    ELSE LET built == parse_entry(class, Head(entries)) IN
         IF built.raised # "none" THEN Raise(built.raised, <<>>)
         ELSE ParseEntries(class, Tail(entries), list \o built.value)

\* safe_load(yaml_file), data["filters"], then the loop and `return filters`.
parse_all_from_yaml(class, document) ==
    IF document.yaml = "malformed" THEN Raise("YAMLError", <<>>)
    ELSE IF document.yaml = "null" THEN Raise("TypeError", <<>>)
    ELSE IF ~document.has_filters THEN Raise("KeyError", <<>>)
    ELSE ParseEntries(class, document.filters, <<>>)

(***************************************************************************)
(* Inputs of the loading specification: documents listing at most          *)
(* MaxEntries of the sample entries below, and the documents no filter     *)
(* list can be read from.                                                  *)
(***************************************************************************)
ScoreEntry == ("minimum_score" :> PyInt(1)) @@ ("maximum_score" :> PyInt(2))
GradeEntry ==
    ("minimum_risk_grade" :> PyStr("A1")) @@ ("maximum_risk_grade" :> PyStr("B5"))
      @@ ("minimum_score" :> PyInt(1))
DestinationEntry ==
    ("destination_whitelist" :> PyList(<<"Automóvil", "Negocio">>))
      @@ ("destination_blacklist" :> PyList(<<"Negocio">>))
UnknownDestinationEntry ==
    ("minimum_score" :> PyInt(1))
      @@ ("destination_blacklist" :> PyList(<<"Automóvil", "Yate">>))
NullListEntry == ("destination_whitelist" :> PyNone) @@ ("minimum_term" :> PyInt(1))
CommentEntry == ("minimum_score" :> PyInt(1)) @@ ("comment" :> PyStr("car loans"))
AgeEntry == ("maximum_score" :> PyInt(2)) @@ ("minimum_age" :> PyInt(2))
FlagEntry == ("has_own_vehicle" :> PyBool(TRUE)) @@ ("maximum_tenure" :> PyInt(1))
HousingEntry ==
    ("housing_whitelist" :> PyList(<<"Rentada", "">>))
      @@ ("occupation_type_blacklist" :> PyList(<<"Empleado">>))
      @@ ("destination_blacklist" :> PyList(<<"Vivienda">>))
UnknownHousingEntry == ("housing_blacklist" :> PyList(<<"Castillo">>))
BaseFilterEntry == ("base_filter" :> PyStr("default")) @@ ("minimum_age" :> PyInt(1))
EmptyEntry == <<>>

EntryInputs ==
    {ScoreEntry, GradeEntry, DestinationEntry, UnknownDestinationEntry,
     NullListEntry, CommentEntry, AgeEntry, FlagEntry, HousingEntry,
     UnknownHousingEntry, BaseFilterEntry, EmptyEntry}

Document(entries) == [yaml |-> "mapping", has_filters |-> TRUE, filters |-> entries]

DocumentInputs ==
    {Document(es) : es \in SeqsUpTo(EntryInputs, MaxEntries)}
    \cup {[yaml |-> "malformed", has_filters |-> FALSE, filters |-> <<>>],
          [yaml |-> "null", has_filters |-> FALSE, filters |-> <<>>],
          [yaml |-> "mapping", has_filters |-> FALSE, filters |-> <<>>]}

LoadRecords ==
    {BaselineRequisition,
     Requisition_init([BaselineArgs EXCEPT !.destination = "Destination.BUSINESS"]),
     BaselineDetailed,
     DetailedRequisition_init(BaselineRequisition,
                              [BaselineDetails EXCEPT !.has_own_vehicle = TRUE]),
     DetailedRequisition_init(BaselineRequisition,
                              [BaselineDetails EXCEPT !.age = MaxVal])}

(***************************************************************************)
(* Loading: one of the two parse_all_from_yaml class methods reads the     *)
(* document drawn by InitLoad; a filter of the returned list is then       *)
(* applied to a record.                                                    *)
(***************************************************************************)
InitLoad ==
    /\ data \in DocumentInputs
    /\ cls = "none"
    /\ filters = <<>>
    /\ raised = "none"
    /\ record = BaselineRequisition
    /\ flt = Filter_init(NoKwargs)
    /\ result = "none"
    /\ SetIdle /\ BuildIdle

FilterParseAllFromYaml ==
    /\ cls = "none"
    /\ cls' = "Filter"
    /\ LET r == parse_all_from_yaml("Filter", data) IN
        raised' = r.raised /\ filters' = r.value
    /\ UNCHANGED <<record, flt, result, data, setVars, buildVars>>

DetailedFilterParseAllFromYaml ==
    /\ cls = "none"
    /\ cls' = "DetailedFilter"
    /\ LET r == parse_all_from_yaml("DetailedFilter", data) IN
        raised' = r.raised /\ filters' = r.value
    /\ UNCHANGED <<record, flt, result, data, setVars, buildVars>>

ApplyLoadedFilter ==
    /\ cls # "none" /\ raised = "none" /\ result = "none"
    /\ \E i \in DOMAIN filters, r \in LoadRecords :
        /\ record' = r
        /\ flt' = filters[i]
        /\ result' = meets_filter(r, filters[i])
    /\ UNCHANGED <<data, cls, filters, raised, setVars, buildVars>>

NextLoad ==
    FilterParseAllFromYaml \/ DetailedFilterParseAllFromYaml \/ ApplyLoadedFilter

SpecLoad == InitLoad /\ [][NextLoad]_vars

(***************************************************************************)
(* Matching a collection of requisitions against a list of filters.  The   *)
(* source holds no function that does it: the Filter docstring states that *)
(* applying several filters to a list of requisitions gives the union of   *)
(* their results, and the specification adds that each requisition is      *)
(* tested against the filters until the first one it meets.                *)
(***************************************************************************)
MaxRecords == 2   \* a collection holds at most MaxRecords requisitions

\* Mutant: only the first filter of the list is tested.
MeetsAnyFilter_first_filter_only(requisition, filter_list) ==
    /\ filter_list # <<>>
    /\ meets_filter(requisition, Head(filter_list)) = "True"

RECURSIVE MeetsAnyFilter(_, _)
MeetsAnyFilter(requisition, filter_list) ==
    IF filter_list = <<>> THEN FALSE
    ELSE IF meets_filter(requisition, Head(filter_list)) = "True" THEN TRUE
    ELSE MeetsAnyFilter(requisition, Tail(filter_list))

\* Mutant: without filters the whole collection is returned.
FilterRequisitions_all_without_filters(requisitions, filter_list) ==
    IF filter_list = <<>> THEN requisitions
    ELSE SelectSeq(requisitions, LAMBDA r : MeetsAnyFilter(r, filter_list))

RECURSIVE FilterRequisitions(_, _)
FilterRequisitions(requisitions, filter_list) ==
    IF requisitions = <<>> THEN <<>>
    ELSE (IF MeetsAnyFilter(Head(requisitions), filter_list)
          THEN <<Head(requisitions)>> ELSE <<>>)
         \o FilterRequisitions(Tail(requisitions), filter_list)

SetRecords ==
    {BaselineRequisition,
     Requisition_init([BaselineArgs EXCEPT !.score = MaxVal]),
     BaselineDetailed,
     DetailedRequisition_init(BaselineRequisition,
                              [BaselineDetails EXCEPT !.age = MaxVal])}

SetFilters ==
    {Filter_init(NoKwargs),
     Filter_init("minimum_score" :> PyInt(MaxVal)),
     Filter_init("destination_whitelist" :> PyList(<<"Destination.BUSINESS">>)),
     DetailedFilter_init(Filter_init(NoKwargs), "minimum_age" :> PyInt(MaxVal)),
     DetailedFilter_init(Filter_init("maximum_score" :> PyInt(1)),
                         "maximum_age" :> PyInt(1))}

InitSet ==
    /\ records \in SeqsUpTo(SetRecords, MaxRecords)
    /\ filters \in SeqsUpTo(SetFilters, MaxEntries)
    /\ selected = NoSelection
    /\ record = BaselineRequisition
    /\ flt = Filter_init(NoKwargs)
    /\ result = "none"
    /\ data = NoData
    /\ cls = "none"
    /\ raised = "none"
    /\ BuildIdle

MatchFilterSet ==
    /\ ~selected.done
    /\ selected' = [done |-> TRUE, value |-> FilterRequisitions(records, filters)]
    /\ UNCHANGED <<record, flt, result, data, cls, filters, raised, records, buildVars>>

NextSet == MatchFilterSet

SpecSet == InitSet /\ [][NextSet]_vars

(***************************************************************************)
(* Building the detailed objects.  The collected strings of the enum       *)
(* valued detail fields are parsed into members, a DetailedRequisition is  *)
(* built from a Requisition and the details, and a DetailedFilter is built *)
(* from a Filter and further criteria.  The source declares the enums;     *)
(* the step that parses the collected strings is not part of it and        *)
(* follows the Education docstring and the specification: Housing and      *)
(* OccupationType are called on the string, Education is looked up by the  *)
(* uppercased string, the empty string standing for UNKNOWN.               *)
(***************************************************************************)
EnumFields == {"housing", "occupation_type", "education"}

\* str.upper() on the strings of the samples.
UpperCase ==
    { <<"", "">>, <<"Profesional", "PROFESIONAL">>, <<"phd", "PHD">>,
      <<"Preparatoria", "PREPARATORIA">> }

upper(value) == (CHOOSE p \in UpperCase : p[1] = value)[2]

\* Education[name]: the integer of the member of that name.
Education(name) == (CHOOSE m \in EducationMembers : m[1] = name)[2]

\* The name of the Education member for a collected string, or "KeyError".
Education_parse(value) ==
    LET name == upper(value) IN
        IF name = "" THEN "UNKNOWN"
        ELSE IF \E m \in EducationMembers : m[1] = name THEN name
        ELSE "KeyError"

PlainDetails == [k \in DetailFields \ EnumFields |-> BaselineDetails[k]]

CollectedInputs ==
    [housing : {"", "Rentada", "Propietario", "Casa"},
     occupation_type : {"", "Empleado", "Jubilado"},
     education : {p[1] : p \in UpperCase}]

InitBuild ==
    /\ \/ /\ \E a \in ArgsInputs : base_req = Requisition_init(a)
          /\ collected \in CollectedInputs
          /\ base_flt = Filter_init(NoKwargs)
          /\ criteria = NoKwargs
       \/ /\ base_req = BaselineRequisition
          /\ collected = NoRaw
          /\ \E g \in Single(BaseGroups) : base_flt = Filter_init(g)
          /\ criteria \in Single(DetailedGroups)
    /\ details = PlainDetails
    /\ record = base_req
    /\ flt = base_flt
    /\ result = "none"
    /\ data = NoData
    /\ cls = "none"
    /\ filters = <<>>
    /\ raised = "none"
    /\ SetIdle

ParseCollected ==
    /\ raised = "none"
    /\ DOMAIN details # DetailFields
    /\ LET h == Housing(collected.housing)
           o == OccupationType(collected.occupation_type)
           e == Education_parse(collected.education)
       IN  IF h = "ValueError" \/ o = "ValueError"
           THEN raised' = "ValueError" /\ UNCHANGED details
           ELSE IF e = "KeyError"
           THEN raised' = "KeyError" /\ UNCHANGED details
           ELSE /\ details' = details @@ [housing |-> h, occupation_type |-> o,
                                          education |-> Education(e)]
                /\ UNCHANGED raised
    /\ UNCHANGED <<record, flt, result, data, cls, filters, setVars,
                   base_req, base_flt, collected, criteria>>

BuildDetailedRequisition ==
    /\ record.class = "Requisition"
    /\ DOMAIN details = DetailFields
    /\ record' = DetailedRequisition_init(base_req, details)
    /\ UNCHANGED <<flt, result, data, cls, filters, raised, setVars, buildVars>>

BuildDetailedFilter ==
    /\ flt.class.s = "Filter"
    /\ flt' = DetailedFilter_init(base_flt, criteria)
    /\ UNCHANGED <<record, result, data, cls, filters, raised, setVars, buildVars>>

NextBuild == ParseCollected \/ BuildDetailedRequisition \/ BuildDetailedFilter

SpecBuild == InitBuild /\ [][NextBuild]_vars

(***************************************************************************)
(* Matching on the risk grade: meets_filter applied to requisitions of     *)
(* every grade and filters bounding the grade by every pair of grades.     *)
(* The other fields follow the example of the specification (score 620,    *)
(* term 24, amount 15000, destination CAR).                                *)
(***************************************************************************)
GradeMembers == {GradeCodes[i] : i \in DOMAIN GradeCodes}

ExampleArgs ==
    [BaselineArgs EXCEPT !.grade = Grade("B3"), !.score = 620, !.term = 24,
                         !.amount = 15000]

GradeRecords ==
    UNION {{Requisition_init([ExampleArgs EXCEPT !.grade = Grade(g)]),
            DetailedRequisition_init(
                Requisition_init([ExampleArgs EXCEPT !.grade = Grade(g)]),
                BaselineDetails)} : g \in GradeMembers}

OptGrades == {PyNone} \cup {PyInt(Grade(g)) : g \in GradeMembers}

GradeFilters ==
    {Filter_init(("minimum_risk_grade" :> lo) @@ ("maximum_risk_grade" :> hi)
                 @@ ("minimum_score" :> PyInt(s))) :
        lo \in OptGrades, hi \in OptGrades, s \in {600, 700}}

InitGrade ==
    /\ record \in GradeRecords
    /\ flt \in GradeFilters
    /\ result = "none"
    /\ data = NoData
    /\ cls = "none"
    /\ filters = <<>>
    /\ raised = "none"
    /\ SetIdle /\ BuildIdle

SpecGrade == InitGrade /\ [][Next]_vars

(***************************************************************************)
(* The criteria of a filter, stated per field.                             *)
(***************************************************************************)
IsSet(v) == v.t # "NoneType"
Criteria(f) == DOMAIN f \ {"class"}
AllUnset(f) == \A k \in Criteria(f) : ~IsSet(f[k])
OnlySet(f, K) == \A k \in Criteria(f) \ K : ~IsSet(f[k])

RangeHolds(r, f, t) ==
    /\ IsSet(f[t[1]]) => f[t[1]].n <= r[t[3]]
    /\ IsSet(f[t[2]]) => r[t[3]] <= f[t[2]].n

ListHolds(r, f, t) ==
    /\ IsSet(f[t[1]]) => r[t[3]] \in Items(f[t[1]].l)
    /\ IsSet(f[t[2]]) => r[t[3]] \notin Items(f[t[2]].l)

FlagHolds(r, f, k) == IsSet(f[k]) => ((f[k].n = 1) <=> r[k])

BaseCriteriaHold(r, f) ==
    /\ \A t \in BaseRanges : RangeHolds(r, f, t)
    /\ \A t \in BaseLists : ListHolds(r, f, t)

DetailedCriteriaHold(r, f) ==
    /\ \A t \in DetailedRanges : RangeHolds(r, f, t)
    /\ \A t \in DetailedLists : ListHolds(r, f, t)
    /\ \A k \in DetailedFlags : FlagHolds(r, f, k)

Bool(b) == IF b THEN "True" ELSE "False"
Called == result # "none"
DetailedOnDetailed ==
    record.class = "DetailedRequisition" /\ isinstance(flt, "DetailedFilter")
BaseRecordDetailedFilter ==
    record.class = "Requisition" /\ isinstance(flt, "DetailedFilter")

\* The range and list criteria meets_filter evaluates for this record and filter.
RangesApplied == BaseRanges \cup (IF DetailedOnDetailed THEN DetailedRanges ELSE {})
ListsApplied == BaseLists \cup (IF DetailedOnDetailed THEN DetailedLists ELSE {})

(***************************************************************************)
(* C1: a DetailedFilter applied to a DetailedRequisition returns True      *)
(* exactly when every set base criterion and every set detailed criterion  *)
(* holds, and False when the base criteria or any detailed criterion fail. *)
(***************************************************************************)
C1_DetailedFilterIsConjunction ==
    (Called /\ DetailedOnDetailed) =>
        result = Bool(BaseCriteriaHold(record, flt) /\ DetailedCriteriaHold(record, flt))

C1_Witness ==
    /\ Called /\ DetailedOnDetailed
    /\ result = "False"
    /\ BaseCriteriaHold(record, flt)
    /\ \E k \in FilterParameters : IsSet(flt[k])
    /\ ~DetailedCriteriaHold(record, flt)

(***************************************************************************)
(* C2: a filter with every criterion unset, of a kind no more detailed     *)
(* than the record, is met by every record.                                *)
(***************************************************************************)
C2_UnsetFilterMatches ==
    (Called /\ AllUnset(flt) /\ ~BaseRecordDetailedFilter) => result = "True"

C2_Witness ==
    Called /\ AllUnset(flt) /\ DetailedOnDetailed /\ result = "True"

(***************************************************************************)
(* C3: range bounds are inclusive.  With every other criterion unset, a    *)
(* range whose minimum and maximum both equal the field matches, a minimum *)
(* of the field plus one does not, a maximum of the field minus one does   *)
(* not.                                                                    *)
(***************************************************************************)
C3_RangeBoundsInclusive ==
    Called =>
        \A t \in RangesApplied :
            LET v == record[t[3]] IN
            /\ (OnlySet(flt, {t[1], t[2]}) /\ flt[t[1]] = PyInt(v) /\ flt[t[2]] = PyInt(v))
                    => result = "True"
            /\ (OnlySet(flt, {t[1]}) /\ flt[t[1]] = PyInt(v + 1)) => result = "False"
            /\ (OnlySet(flt, {t[2]}) /\ flt[t[2]] = PyInt(v - 1)) => result = "False"

C3_Witness ==
    /\ Called /\ DetailedOnDetailed /\ result = "True"
    /\ OnlySet(flt, {"minimum_tenure", "maximum_tenure"})
    /\ flt.minimum_tenure = PyInt(record.tenure)
    /\ flt.maximum_tenure = PyInt(record.tenure)
    /\ record.tenure = MaxVal

(***************************************************************************)
(* C4: blacklist precedence.  When the record's category value is in both  *)
(* the whitelist and the blacklist of a filter, meets_filter returns       *)
(* False; with nothing else set, the same filter with the blacklist unset  *)
(* returns True.                                                           *)
(***************************************************************************)
InBothLists(t) ==
    /\ IsSet(flt[t[1]]) /\ record[t[3]] \in Items(flt[t[1]].l)
    /\ IsSet(flt[t[2]]) /\ record[t[3]] \in Items(flt[t[2]].l)

C4_BlacklistPrecedence ==
    Called =>
        \A t \in ListsApplied :
            InBothLists(t) =>
                /\ result = "False"
                /\ OnlySet(flt, {t[1], t[2]}) =>
                        meets_filter(record, [flt EXCEPT ![t[2]] = PyNone]) = "True"

C4_Witness ==
    /\ Called /\ result = "False"
    /\ DetailedOnDetailed
    /\ InBothLists(<<"occupation_type_whitelist", "occupation_type_blacklist",
                     "occupation_type">>)
    /\ OnlySet(flt, {"occupation_type_whitelist", "occupation_type_blacklist"})
    /\ Len(flt.occupation_type_whitelist.l) = MaxList

(***************************************************************************)
(* C5: a base Filter applied to a DetailedRequisition ignores the detailed *)
(* fields: every DetailedRequisition with the same base fields gets the    *)
(* same result from the same filter.                                       *)
(***************************************************************************)
C5_BaseFilterIgnoresDetails ==
    (Called /\ record.class = "DetailedRequisition" /\ ~isinstance(flt, "DetailedFilter")) =>
        \A r2 \in DetailedInputs :
            SameBase(r2, record) => meets_filter(r2, flt) = result

C5_Witness ==
    /\ Called /\ record.class = "DetailedRequisition"
    /\ ~isinstance(flt, "DetailedFilter")
    /\ record.tenure # BaselineDetails.tenure
    /\ IsSet(flt.maximum_term)
    /\ result = "True"
    /\ \E r2 \in DetailedInputs : r2 # record /\ SameBase(r2, record)

(***************************************************************************)
(* C6 as claimed: Requisition.meets_filter returns no match result for a   *)
(* DetailedFilter argument (it fails fast).                                *)
(***************************************************************************)
C6_FailsFastOnDetailedFilter ==
    (Called /\ BaseRecordDetailedFilter) => result \notin {"True", "False"}

(***************************************************************************)
(* C6 as amended: for a DetailedFilter argument Requisition.meets_filter   *)
(* applies the filter's base criteria alone and returns True when they     *)
(* hold, False when they do not; the detailed criteria are ignored.        *)
(***************************************************************************)
C6_DetailedFilterAppliedAsBase ==
    (Called /\ BaseRecordDetailedFilter) => result = Bool(BaseCriteriaHold(record, flt))

C6_Witness ==
    /\ Called /\ BaseRecordDetailedFilter
    /\ result = "True"
    /\ flt.minimum_age = PyInt(MaxVal + 1)

(***************************************************************************)
(* The loaders, stated per entry.                                          *)
(***************************************************************************)
Loaded == cls # "none"
HasFilterList == data.yaml = "mapping" /\ data.has_filters
Entries == data.filters
DeclaredCriteria ==
    IF cls = "Filter" THEN FilterParameters
    ELSE FilterParameters \cup DetailedFilterCriteria

MembersOf(key) ==
    CASE key \in {"destination_whitelist", "destination_blacklist"} -> DestinationMembers
      [] key \in {"housing_whitelist", "housing_blacklist"} -> HousingMembers
      [] key \in {"occupation_type_whitelist", "occupation_type_blacklist"} ->
            OccupationTypeMembers

ListKeys ==
    {"destination_whitelist", "destination_blacklist", "housing_whitelist",
     "housing_blacklist", "occupation_type_whitelist", "occupation_type_blacklist"}

ListKeysOf(entry) == {k \in DOMAIN entry \cap ListKeys : entry[k].t = "list"}

Labels(key) == {m[2] : m \in MembersOf(key)}

\* The entry names, in a whitelist or blacklist, a non-empty label of no member.
HasUnknownLabel(entry) ==
    \E k \in ListKeysOf(entry) :
        \E x \in Items(entry[k].l) : x # "" /\ x \notin Labels(k)

(***************************************************************************)
(* C7 as claimed: matching never errors for a filter a loader returned     *)
(* from a well-formed document; meets_filter returns True or False.        *)
(***************************************************************************)
C7_MatchingNeverErrors ==
    (Loaded /\ raised = "none" /\ Called) => result \in {"True", "False"}

(***************************************************************************)
(* C8 as claimed: an entry with a key that is no declared criterion of the *)
(* loader's filter kind loads without error, and the filter built from it  *)
(* has exactly the entry's declared criteria set (here: for entries whose  *)
(* values are scalars).                                                    *)
(***************************************************************************)
C8_UnknownKeysDropped ==
    ( /\ Loaded /\ HasFilterList
      /\ \A i \in DOMAIN Entries : ListKeysOf(Entries[i]) = {}
      /\ \E i \in DOMAIN Entries : ~(DOMAIN Entries[i] \subseteq DeclaredCriteria) )
    => /\ raised = "none"
       /\ Len(filters) = Len(Entries)
       /\ \A i \in DOMAIN filters : \A k \in DeclaredCriteria :
            filters[i][k] = IF k \in DOMAIN Entries[i] THEN Entries[i][k] ELSE PyNone

(***************************************************************************)
(* C9 as claimed: DetailedFilter.parse_all_from_yaml, given entries of     *)
(* declared criteria whose whitelists and blacklists hold recognized       *)
(* labels, succeeds, and each list of a built filter holds the members of  *)
(* its own enumeration that the raw labels name, in order.                 *)
(***************************************************************************)
C9_ListsConvertedPerKind ==
    ( /\ Loaded /\ cls = "DetailedFilter" /\ HasFilterList
      /\ \A i \in DOMAIN Entries :
            /\ DOMAIN Entries[i] \subseteq DeclaredCriteria
            /\ ~HasUnknownLabel(Entries[i])
      /\ \E i \in DOMAIN Entries : ListKeysOf(Entries[i]) # {} )
    => /\ raised = "none"
       /\ Len(filters) = Len(Entries)
       /\ \A i \in DOMAIN filters : \A k \in ListKeysOf(Entries[i]) :
            /\ filters[i][k].t = "list"
            /\ Len(filters[i][k].l) = Len(Entries[i][k].l)
            /\ \A j \in DOMAIN Entries[i][k].l :
                <<filters[i][k].l[j], Entries[i][k].l[j]>> \in MembersOf(k)

(***************************************************************************)
(* C10: a load error aborts the whole load.  When the document is          *)
(* malformed, lacks the filters section, or any of its entries names an    *)
(* unrecognized non-empty label in a whitelist or blacklist,               *)
(* parse_all_from_yaml raises and returns no list, whatever the entries    *)
(* before the failing one; and whenever it raises, no filter is returned.  *)
(***************************************************************************)
C10_LoadErrorAbortsLoad ==
    Loaded =>
        /\ ( \/ ~HasFilterList
             \/ \E i \in DOMAIN Entries : HasUnknownLabel(Entries[i]) )
            => raised # "none"
        /\ raised # "none" => filters = <<>>

C10_Witness ==
    /\ Loaded /\ cls = "Filter" /\ HasFilterList
    /\ Len(Entries) = MaxEntries
    /\ \A i \in 1..(MaxEntries - 1) : Filter_parse_entry(Entries[i]).raised = "none"
    /\ HasUnknownLabel(Entries[MaxEntries])
    /\ raised = "ValueError"
    /\ filters = <<>>

(***************************************************************************)
(* Claims about matching a collection against a list of filters.           *)
(***************************************************************************)
Matched == selected.done
Meets(i, j) == meets_filter(records[i], filters[j]) = "True"

\* C11: matching a collection against a list of filters selects exactly the
\* union of what each filter of the list selects on its own: a requisition
\* is selected iff it meets at least one filter of the list.
C11_FilterSetIsUnion ==
    Matched =>
        /\ Items(selected.value) =
              UNION {Items(FilterRequisitions(records, <<filters[j]>>)) :
                        j \in DOMAIN filters}
        /\ \A i \in DOMAIN records :
              records[i] \in Items(selected.value)
                  <=> \E j \in DOMAIN filters : Meets(i, j)

C11_Witness ==
    /\ Matched
    /\ Len(filters) = 2 /\ Len(records) = MaxRecords
    /\ \E i \in DOMAIN records : ~Meets(i, 1) /\ Meets(i, 2)
    /\ \E i \in DOMAIN records : ~Meets(i, 1) /\ ~Meets(i, 2)
    /\ Len(selected.value) = MaxRecords - 1

\* C12: matching any collection against an empty list of filters selects no
\* requisition.
C12_NoFiltersSelectNothing ==
    (Matched /\ filters = <<>>) => selected.value = <<>>

C12_Witness ==
    /\ Matched /\ filters = <<>>
    /\ Len(records) = MaxRecords
    /\ selected.value = <<>>

(***************************************************************************)
(* Claims about parsing the collected strings and building the detailed    *)
(* objects.                                                                *)
(***************************************************************************)
Parsed == DOMAIN details = DetailFields
ParseFailed == raised # "none"

C14_BaseFieldsCopied ==
    [][BuildDetailedRequisition =>
        /\ record'.class = "DetailedRequisition"
        /\ \A k \in RequisitionFields : record'[k] = base_req[k]
        /\ base_req' = base_req]_vars

C14_Witness ==
    /\ record.class = "DetailedRequisition"
    /\ base_req.class = "Requisition"
    /\ base_req.score = MaxVal /\ record.score = MaxVal
    /\ SameBase(record, base_req)
    /\ record.housing = "Housing.OWNER"

\* C17: a DetailedFilter built from a Filter holds every base criterion of
\* the Filter, building it leaves every criterion of the Filter unchanged,
\* and every detailed criterion not passed to the constructor is unset.
C17_BaseFilterEmbedded ==
    [][BuildDetailedFilter =>
        /\ flt'.class.s = "DetailedFilter"
        /\ \A k \in FilterParameters : flt'[k] = base_flt[k]
        /\ base_flt' = base_flt
        /\ \A k \in DetailedFilterCriteria \ DOMAIN criteria : flt'[k] = PyNone]_vars

C17_Witness ==
    /\ flt.class.s = "DetailedFilter"
    /\ base_flt.class.s = "Filter"
    /\ IsSet(base_flt["minimum_score"])
    /\ flt["minimum_score"] = base_flt["minimum_score"]
    /\ DOMAIN criteria = {"minimum_age", "maximum_age"}
    /\ IsSet(flt["maximum_age"])
    /\ \A k \in DetailedFilterCriteria \ DOMAIN criteria : flt[k] = PyNone

(***************************************************************************)
(* Claims about the risk grade criteria.                                   *)
(***************************************************************************)
Rank ==
    [A1 |-> 0, A2 |-> 1, A3 |-> 2, A4 |-> 3, A5 |-> 4, A6 |-> 5, A7 |-> 6,
     B1 |-> 7, B2 |-> 8, B3 |-> 9, B4 |-> 10, B5 |-> 11, B6 |-> 12, B7 |-> 13,
     C1 |-> 14, C2 |-> 15, C3 |-> 16, C4 |-> 17, C5 |-> 18, C6 |-> 19, C7 |-> 20]

HasGrade(v, g) == v = PyInt(Grade(g))
ExampleFilter(hi) ==
    Filter_init(("minimum_risk_grade" :> PyInt(Grade("A1")))
                @@ ("maximum_risk_grade" :> PyInt(Grade(hi)))
                @@ ("minimum_score" :> PyInt(600)))

\* C15: the risk grade criteria compare by rank over the 21 grades A1 = 0 ..
\* C7 = 20: with the other criteria satisfied, a requisition of grade g
\* meets a filter bounding the grade by lo and hi iff rank(lo) <= rank(g)
\* <= rank(hi) (an unset bound does not constrain); grade B3 with score 620
\* meets {minimum A1, maximum B5, minimum_score 600} and does not meet the
\* same filter with maximum A7.
C15_GradeComparedByRank ==
    /\ DOMAIN Rank = GradeMembers
    /\ \A g \in GradeMembers : Grade(g) = Rank[g]
    /\ (Called /\ RangeHolds(record, flt, <<"minimum_score", "maximum_score", "score">>)) =>
        \A g \in GradeMembers : record.grade = Grade(g) =>
            /\ \A lo \in GradeMembers : HasGrade(flt["minimum_risk_grade"], lo) =>
                  (Rank[lo] > Rank[g] => result = "False")
            /\ \A hi \in GradeMembers : HasGrade(flt["maximum_risk_grade"], hi) =>
                  (Rank[g] > Rank[hi] => result = "False")
            /\ (result = "True") <=>
                  (/\ \A lo \in GradeMembers :
                        HasGrade(flt["minimum_risk_grade"], lo) => Rank[lo] <= Rank[g]
                   /\ \A hi \in GradeMembers :
                        HasGrade(flt["maximum_risk_grade"], hi) => Rank[g] <= Rank[hi])
    /\ (Called /\ record.grade = Grade("B3") /\ record.score = 620) =>
        /\ flt = ExampleFilter("B5") => result = "True"
        /\ flt = ExampleFilter("A7") => result = "False"

C15_Witness ==
    /\ Called
    /\ record.grade = 9 /\ record.score = 620 /\ record.term = 24
    /\ record.amount = 15000 /\ record.destination = "Destination.CAR"
    /\ flt = ExampleFilter("B5")
    /\ flt["maximum_risk_grade"].n = 11
    /\ result = "True"

(***************************************************************************)
(* Claims about the list a loader returns.                                 *)
(***************************************************************************)
BuiltFrom(f, entry) == parse_entry(cls, entry) = Return(<<f>>)

\* C16: a load that succeeds returns exactly one filter per entry of the
\* document's filters list, in the order of the document; a filters list
\* with no entry loads as the empty list.
C16_OneFilterPerEntryInOrder ==
    /\ (Loaded /\ raised = "none") =>
        /\ HasFilterList
        /\ Len(filters) = Len(Entries)
        /\ \A i \in DOMAIN Entries : BuiltFrom(filters[i], Entries[i])
    /\ (Loaded /\ HasFilterList /\ Entries = <<>>) =>
        raised = "none" /\ filters = <<>>

C16_Witness ==
    /\ Loaded /\ raised = "none"
    /\ Len(Entries) = MaxEntries /\ Len(filters) = MaxEntries
    /\ Entries[1] = ScoreEntry /\ Entries[MaxEntries] = DestinationEntry
    /\ filters[1]["minimum_score"] = PyInt(1)
    /\ filters[1]["destination_blacklist"] = PyNone
    /\ filters[MaxEntries]["destination_blacklist"] = PyList(<<"Destination.BUSINESS">>)

(***************************************************************************)
(* Claims about whitelists and blacklists that are set but empty.          *)
(***************************************************************************)
EmptyList == PyList(<<>>)
ListsHeld == BaseLists \cup (IF isinstance(flt, "DetailedFilter") THEN DetailedLists ELSE {})
Unset(f, k) == [f EXCEPT ![k] = PyNone]

\* C18 as stated: an empty whitelist of the filter (destination, housing or
\* occupation type) makes meets_filter return False for every record, and
\* an empty blacklist leaves the result what it is with the blacklist
\* unset.  Violated: a Requisition does not evaluate the housing and
\* occupation type lists of a DetailedFilter.
C18_EmptyWhitelistRejectsEveryRecord ==
    Called =>
        \A t \in ListsHeld :
            /\ flt[t[1]] = EmptyList => result = "False"
            /\ flt[t[2]] = EmptyList => result = meets_filter(record, Unset(flt, t[2]))

\* C18, amended: an empty whitelist makes meets_filter return False for
\* every record that evaluates the list (the destination whitelist for every
\* record, the housing and occupation type whitelists for every
\* DetailedRequisition given a DetailedFilter); an empty blacklist leaves
\* the result what it is with the blacklist unset; a Requisition given a
\* DetailedFilter gets the result it gets with the detailed lists unset.
C18_EmptyListsWhereEvaluated ==
    Called =>
        /\ \A t \in ListsApplied : flt[t[1]] = EmptyList => result = "False"
        /\ \A t \in ListsHeld :
              flt[t[2]] = EmptyList => result = meets_filter(record, Unset(flt, t[2]))
        /\ BaseRecordDetailedFilter =>
              \A t \in DetailedLists :
                  result = meets_filter(record, Unset(Unset(flt, t[1]), t[2]))

C18_Witness ==
    /\ Called /\ result = "False"
    /\ DetailedOnDetailed
    /\ flt["housing_whitelist"] = EmptyList
    /\ OnlySet(flt, {"housing_whitelist"})
    /\ record.housing = "Housing.OWNER"

====
